---------------------------- MODULE Spec2Model ----------------------------
(***************************************************************************)
(* Model of the PaddleOCR HTTP service (src/app/main.py).                  *)
(*                                                                         *)
(* State: the module-level globals (API_KEY, ocr_engine), the model        *)
(* directories on disk, the warnings written to the logger, and one frame  *)
(* of local variables per request in flight.                               *)
(*                                                                         *)
(* Representation:                                                         *)
(*   - Optional[T] is a sequence of length 0 (None) or 1 (a value).        *)
(*   - a Python value returned by the engine is a tagged record: None, or  *)
(*     a list with its elements.                                           *)
(*   - a confidence is an integer number of 10^-5; a confidence rounded    *)
(*     to 4 decimal places is an integer number of 10^-4.                  *)
(*   - a base64 payload is a sequence of tokens (runs of characters).      *)
(*   - processing_time_ms (wall clock) is left out of the response.        *)
(***************************************************************************)
EXTENDS Integers, Sequences, FiniteSets, TLC

VARIABLES
    API_KEY,      \* module global, read from the environment at import
    modelDirs,    \* which of the three model directories exist on disk
    ocr_engine,   \* module global: the engine handle, or None
    lifecycle,    \* "imported", then "started" or "failed" (startup hook)
    warnings,     \* number of logger.warning records emitted so far
    arrivals,     \* number of processing requests received so far
    req,          \* per request slot: the frame of the request in flight
    healthResp    \* Optional: body of the last /health response

vars == <<API_KEY, modelDirs, ocr_engine, lifecycle, warnings, arrivals,
          req, healthResp>>

----------------------------------------------------------------------------
(* Bounds *)

\* processing requests received in one behaviour
MaxRequests == 3

\* detections in one engine answer
MaxDet == 3

Slots == {1, 2}

----------------------------------------------------------------------------
(* Values *)

None == <<>>

Some(v) == <<v>>

PyNone == [t |-> "None"]

PyList(s) == [t |-> "list", v |-> s]

\* Python truthiness of an engine value: None and the empty list are falsy
Truthy(x) == x.t = "list" /\ x.v # <<>>

ENGINE == "PaddleOCR"

Secret == "s3cret"

EnvKeys == {"", Secret}

Headers == {None, Some(Secret), Some("wrong"), Some("")}

_DET_MODEL_DIR == "/app/.paddleocr/whl/det/en/en_PP-OCRv3_det_infer"

_REC_MODEL_DIR == "/app/.paddleocr/whl/rec/en/en_PP-OCRv4_rec_infer"

_CLS_MODEL_DIR == "/app/.paddleocr/whl/cls/ch_ppocr_mobile_v2.0_cls_infer"

AllModelDirs == {_DET_MODEL_DIR, _REC_MODEL_DIR, _CLS_MODEL_DIR}

----------------------------------------------------------------------------
(* Request bodies and the image decoder *)

\* tokens of image_base64: "png" is the base64 of a parsable image, "txt" the
\* base64 of bytes that are no image, "A" a run whose length breaks the
\* padding, "," a comma, "data:" a data-URI header
Bodies ==
    { <<"png">>, <<"txt">>, <<"A">>,
      <<"data:", ",", "png">>, <<"data:", ",", "A">>,
      <<"data:", ",", "png", ",">> }

SmallBodies == { <<"A">>, <<"txt">>, <<"data:", ",", "png">> }

HasComma(raw) == \E k \in 1..Len(raw) : raw[k] = ","

FirstComma(raw) == CHOOSE k \in 1..Len(raw) :
                       raw[k] = "," /\ \A j \in 1..(k - 1) : raw[j] # ","

\* raw.split(",", 1)[1] when "," in raw
StripPrefix(raw) ==
    IF HasComma(raw) THEN SubSeq(raw, FirstComma(raw) + 1, Len(raw)) ELSE raw

\* base64.b64decode(raw), validate=False: characters outside the alphabet are
\* discarded, then a wrong length raises binascii.Error
B64Alphabet(tok) == tok \notin {",", "data:"}

B64Decode(raw) ==
    LET kept == SelectSeq(raw, B64Alphabet)
    IN  IF \E k \in 1..Len(kept) : kept[k] = "A"
        THEN [exc |-> Some("Incorrect padding"), bytes |-> <<>>]
        ELSE [exc |-> None, bytes |-> kept]

\* Image.open(io.BytesIO(image_bytes)).convert("RGB"); np.array(image)
ImageOpen(bytes) ==
    IF bytes = <<"png">>
    THEN [exc |-> None, img |-> Some("rgb")]
    ELSE [exc |-> Some("cannot identify image file"), img |-> None]

\* lines 120-127: the whole decode stage
DecodeImage(body) ==
    LET d == B64Decode(StripPrefix(body))
    IN  IF d.exc # None THEN [exc |-> d.exc, img |-> None]
        ELSE ImageOpen(d.bytes)

----------------------------------------------------------------------------
(* Engine answers: ocr_engine.ocr(img_array, cls=True) is a black box *)

Texts == {"INVOICE", "TOTAL"}

\* 0.00004 and 0.00014: rounding to 4 places changes both
Confs == {4, 14}

Boxes == {"box1", "box2"}

\* one detection line: [box, (text, conf)]
Dets == {<<b, <<t, c>>>> : b \in Boxes, t \in Texts, c \in Confs}

\* a line that does not unpack into box, (text, conf)
BadLine == <<"box1">>

RECURSIVE SeqsUpTo(_, _)
SeqsUpTo(S, n) ==
    IF n = 0 THEN {<<>>}
    ELSE LET shorter == SeqsUpTo(S, n - 1)
         IN  shorter \cup {Append(s, x) : s \in {q \in shorter : Len(q) = n - 1}, x \in S}

Returns(v) == [exc |-> None, value |-> v]

Raises(msg) == [exc |-> Some(msg), value |-> PyNone]

\* the engine raising, with and without a message (str(e) of an exception
\* constructed without arguments, such as a bare assert, is "")
EngineRaises == {Raises("engine failure"), Raises("")}

EmptyAnswers ==
    {Returns(PyNone), Returns(PyList(<<>>)), Returns(PyList(<<PyNone>>)),
     Returns(PyList(<<PyList(<<>>)>>))}

OneDet == <<"box1", <<"INVOICE", 4>>>>

OtherDet == <<"box2", <<"TOTAL", 14>>>>

MalformedAnswers ==
    {Returns(PyList(<<PyList(<<OneDet, BadLine>>)>>))}

SmallOutcomes ==
    EngineRaises \cup MalformedAnswers
    \cup {Returns(PyNone), Returns(PyList(<<PyNone>>)),
          Returns(PyList(<<PyList(<<OneDet>>)>>)),
          Returns(PyList(<<PyList(<<OtherDet, OneDet>>)>>))}

\* every detection sequence up to MaxDet lines, alone or followed by a
\* second page (only result[0] is read)
RichOutcomes ==
    EngineRaises \cup MalformedAnswers \cup EmptyAnswers
    \cup {Returns(PyList(<<PyList(s)>>)) : s \in SeqsUpTo(Dets, MaxDet) \ {<<>>}}
    \cup {Returns(PyList(<<PyList(<<OneDet>>), PyList(<<OtherDet>>)>>)),
          Returns(PyList(<<PyNone, PyList(<<OtherDet>>)>>))}

----------------------------------------------------------------------------
(* Result aggregation helpers *)

\* round half to even of num/den (den > 0), as Python's round()
RoundHalfEven(num, den) ==
    LET q == num \div den
        r == num % den
    IN  IF 2 * r < den THEN q
        ELSE IF 2 * r > den THEN q + 1
        ELSE IF q % 2 = 0 THEN q ELSE q + 1

\* round(x, 4) of x = num/den in units of 10^-5; the result is in 10^-4
Round4(num, den) == RoundHalfEven(num, den * 10)

\* "\n".join(parts)
RECURSIVE Join(_)
Join(parts) ==
    IF parts = <<>> THEN ""
    ELSE IF Len(parts) = 1 THEN parts[1]
    ELSE parts[1] \o "\n" \o Join(Tail(parts))

\* box, (text, conf) = line
Unpacks(line) == Len(line) = 2 /\ Len(line[2]) = 2

\* variant: the rounded per-line confidence is accumulated
AddRoundedConf(total, conf) == total + 10 * Round4(conf, 1)

\* total_conf += conf
AddConf(total, conf) == total + conf

\* variant: if result
HasDetectionsResultOnly(result) == Truthy(result)

\* if result and result[0]
HasDetections(result) == Truthy(result) /\ Truthy(result.v[1])

\* avg_conf = round(total_conf / count, 4) if count > 0 else 0.0
AvgConf(total, count) == IF count > 0 THEN Round4(total, count) ELSE 0

OcrResponse(success, text, lines, confidence, error) ==
    [success |-> success, text |-> text, lines |-> lines,
     confidence |-> confidence, error |-> error]

\* the except branch: str(e) becomes the error field
ErrorResponse(msg) == OcrResponse(FALSE, "", <<>>, 0, Some(msg))

----------------------------------------------------------------------------
(* Frames *)

\* the frame of a slot with no request in flight
IdleFrame ==
    [pc |-> "idle", key |-> None, body |-> <<>>, status |-> 0, resp |-> None,
     img |-> None, result |-> None, i |-> 0,
     lines |-> <<>>, full_text_parts |-> <<>>, total_conf |-> 0, count |-> 0,
     calls |-> {}]

\* variant: the accumulators are module-level, shared by all requests
SharedLocals(r) == req[CHOOSE q \in Slots : \A o \in Slots : q <= o]

\* the local variables of request r: each call of process_base64 has its own
Locals(r) == req[r]

\* the except branch taken from frame f with exception message msg
Failed(f, msg) ==
    [f EXCEPT !.pc = "done", !.status = 200, !.resp = Some(ErrorResponse(msg))]

\* raise HTTPException(status_code=code): no response model is built
Rejected(f, code) == [f EXCEPT !.pc = "done", !.status = code]

----------------------------------------------------------------------------
(* Startup hook *)

\* variant: the handle is assigned although construction raised
startup_raises_assigned ==
    /\ lifecycle = "imported"
    /\ lifecycle' = "failed"
    /\ ocr_engine' = Some(ENGINE)
    /\ UNCHANGED <<API_KEY, modelDirs, warnings, arrivals, req, healthResp>>

\* PaddleOCR(...) raises: the assignment to ocr_engine is never reached
startup_raises ==
    /\ lifecycle = "imported"
    /\ lifecycle' = "failed"
    /\ UNCHANGED <<API_KEY, modelDirs, ocr_engine, warnings, arrivals, req,
                   healthResp>>

\* PaddleOCR(...) returns: ocr_engine is assigned
startup_ok ==
    /\ lifecycle = "imported"
    /\ ocr_engine' = Some(ENGINE)
    /\ lifecycle' = "started"
    /\ UNCHANGED <<API_KEY, modelDirs, warnings, arrivals, req, healthResp>>

\* the framework runs the startup hook once; it logs at INFO level only
startup == startup_ok \/ startup_raises

----------------------------------------------------------------------------
(* GET /health *)

\* variant: any() in place of all()
ModelsPresentAny(dirs) == \E p \in AllModelDirs : p \in dirs

\* models_present = all(os.path.isdir(p) for p in [det, rec, cls])
ModelsPresent(dirs) == \A p \in AllModelDirs : p \in dirs

\* variant: ready reported from the hook having run, whatever its outcome
HealthBodyReadyAfterHook(engine, dirs) ==
    [status |-> "ok",
     engine |-> "paddleocr",
     ready |-> lifecycle # "imported",
     models_baked |-> \A p \in AllModelDirs : p \in dirs,
     model_paths |-> [det |-> _DET_MODEL_DIR, rec |-> _REC_MODEL_DIR,
                      cls |-> _CLS_MODEL_DIR]]

\* the body health() returns when the handle is `engine` and `dirs` exist
HealthBodyOf(engine, dirs) ==
    [status |-> "ok",
     engine |-> "paddleocr",
     ready |-> engine # None,
     models_baked |-> ModelsPresent(dirs),
     model_paths |-> [det |-> _DET_MODEL_DIR, rec |-> _REC_MODEL_DIR,
                      cls |-> _CLS_MODEL_DIR]]

HealthBody == HealthBodyOf(ocr_engine, modelDirs)

\* no dependency, no exception path: always answered with 200
health ==
    /\ healthResp' = Some(HealthBody)
    /\ UNCHANGED <<API_KEY, modelDirs, ocr_engine, lifecycle, warnings,
                   arrivals, req>>

----------------------------------------------------------------------------
(* POST /process-base64 *)

\* a request arrives in slot r with its X-API-Key header and its body
Receive(r, headers, bodies) ==
    /\ req[r].pc = "idle"
    /\ arrivals < MaxRequests
    /\ \E key \in headers, body \in bodies :
           req' = [req EXCEPT ![r] =
                      [IdleFrame EXCEPT !.pc = "auth", !.key = key, !.body = body]]
    /\ arrivals' = arrivals + 1
    /\ UNCHANGED <<API_KEY, modelDirs, ocr_engine, lifecycle, warnings, healthResp>>

\* variant: a request without the header is let through
KeyMismatchWhenPresent(key) == key # None /\ key # Some(API_KEY)

\* if API_KEY is set, whether key != API_KEY
KeyMismatch(key) == key # Some(API_KEY)

\* the security dependency, resolved before the handler body runs
verify_api_key(r) ==
    /\ req[r].pc = "auth"
    /\ IF API_KEY = ""
       THEN /\ warnings' = warnings + 1
            /\ req' = [req EXCEPT ![r].pc = "handler"]
       ELSE /\ UNCHANGED warnings
            /\ IF KeyMismatch(req[r].key)
               THEN req' = [req EXCEPT ![r] = Rejected(@, 401)]
               ELSE req' = [req EXCEPT ![r].pc = "handler"]
    /\ UNCHANGED <<API_KEY, modelDirs, ocr_engine, lifecycle, arrivals, healthResp>>

\* variant: readiness taken from the startup hook having run, not the handle
EngineMissingBeforeStartup == lifecycle = "imported"

\* if ocr_engine is None: raise HTTPException(503)
EngineMissing == ocr_engine = None

ReadyCheck(r) ==
    /\ req[r].pc = "handler"
    /\ IF EngineMissing
       THEN req' = [req EXCEPT ![r] = Rejected(@, 503)]
       ELSE req' = [req EXCEPT ![r].pc = "decode"]
    /\ UNCHANGED <<API_KEY, modelDirs, ocr_engine, lifecycle, warnings,
                   arrivals, healthResp>>

Decode(r) ==
    /\ req[r].pc = "decode"
    /\ LET d == DecodeImage(req[r].body)
           f == [req[r] EXCEPT !.calls = @ \cup {"decode"}]
       IN  req' = [req EXCEPT ![r] =
                      IF d.exc # None THEN Failed(f, d.exc[1])
                      ELSE [f EXCEPT !.pc = "infer", !.img = d.img]]
    /\ UNCHANGED <<API_KEY, modelDirs, ocr_engine, lifecycle, warnings,
                   arrivals, healthResp>>

\* result = ocr_engine.ocr(img_array, cls=True)
Infer(r, outcomes) ==
    /\ req[r].pc = "infer"
    /\ \E out \in outcomes :
           LET f == [req[r] EXCEPT !.calls = @ \cup {"ocr"}, !.result = Some(out)]
           IN  req' = [req EXCEPT ![r] =
                          IF out.exc # None THEN Failed(f, out.exc[1])
                          ELSE [f EXCEPT !.pc = "agg"]]
    /\ UNCHANGED <<API_KEY, modelDirs, ocr_engine, lifecycle, warnings,
                   arrivals, healthResp>>

\* the accumulators are created, then the guard of the loop is evaluated
AggInit(r) ==
    /\ req[r].pc = "agg"
    /\ req' = [req EXCEPT ![r] =
                  [@ EXCEPT !.lines = <<>>, !.full_text_parts = <<>>,
                            !.total_conf = 0, !.count = 0, !.i = 1,
                            !.pc = IF HasDetections(req[r].result[1].value)
                                   THEN "loop" ELSE "finish"]]
    /\ UNCHANGED <<API_KEY, modelDirs, ocr_engine, lifecycle, warnings,
                   arrivals, healthResp>>

UnpackError(line) ==
    IF Len(line) < 2 THEN "not enough values to unpack (expected 2, got 1)"
    ELSE "too many values to unpack (expected 2)"

\* one iteration of: for line in result[0]
AggLine(r) ==
    /\ req[r].pc = "loop"
    /\ LET page == req[r].result[1].value.v[1]
           dets == page.v
           line == dets[req[r].i]
           acc  == Locals(r)
       IN  req' = [req EXCEPT ![r] =
                      IF page.t # "list"
                      THEN Failed(@, "'NoneType' object is not iterable")
                      ELSE IF dets = <<>> THEN [@ EXCEPT !.pc = "finish"]
                      ELSE IF ~Unpacks(line) THEN Failed(@, UnpackError(line))
                      ELSE [@ EXCEPT
                               !.lines = Append(acc.lines,
                                                [text |-> line[2][1],
                                                 confidence |-> Round4(line[2][2], 1),
                                                 box |-> line[1]]),
                               !.full_text_parts = Append(acc.full_text_parts, line[2][1]),
                               !.total_conf = AddConf(acc.total_conf, line[2][2]),
                               !.count = acc.count + 1,
                               !.i = @ + 1,
                               !.pc = IF req[r].i = Len(dets) THEN "finish" ELSE "loop"]]
    /\ UNCHANGED <<API_KEY, modelDirs, ocr_engine, lifecycle, warnings,
                   arrivals, healthResp>>

\* avg_conf, full_text and the OcrResponse of the try branch
Finish(r) ==
    /\ req[r].pc = "finish"
    /\ LET acc == Locals(r)
       IN  req' = [req EXCEPT ![r] =
                      [@ EXCEPT !.pc = "done", !.status = 200,
                                !.resp = Some(OcrResponse(TRUE,
                                                  Join(acc.full_text_parts),
                                                  acc.lines,
                                                  AvgConf(acc.total_conf, acc.count),
                                                  None))]]
    /\ UNCHANGED <<API_KEY, modelDirs, ocr_engine, lifecycle, warnings,
                   arrivals, healthResp>>

\* the response is sent and the frame is dropped
Respond(r) ==
    /\ req[r].pc = "done"
    /\ req' = [req EXCEPT ![r] = IdleFrame]
    /\ UNCHANGED <<API_KEY, modelDirs, ocr_engine, lifecycle, warnings,
                   arrivals, healthResp>>

process_base64(r, headers, bodies, outcomes) ==
    \/ Receive(r, headers, bodies)
    \/ verify_api_key(r)
    \/ ReadyCheck(r)
    \/ Decode(r)
    \/ Infer(r, outcomes)
    \/ AggInit(r)
    \/ AggLine(r)
    \/ Finish(r)
    \/ Respond(r)

----------------------------------------------------------------------------
(* Specifications *)

IdleService ==
    /\ ocr_engine = None
    /\ lifecycle = "imported"
    /\ warnings = 0
    /\ arrivals = 0
    /\ req = [r \in Slots |-> IdleFrame]
    /\ healthResp = None

\* the service, one request at a time, any configuration
Init ==
    /\ API_KEY \in EnvKeys
    /\ modelDirs \in SUBSET AllModelDirs
    /\ IdleService

Next ==
    \/ startup
    \/ health
    \/ process_base64(1, Headers, Bodies, SmallOutcomes)

Spec == Init /\ [][Next]_vars

\* the pipeline on every engine answer, one authenticated request at a time
InitAgg ==
    /\ API_KEY = Secret
    /\ modelDirs = AllModelDirs
    /\ IdleService

NextAgg ==
    \/ startup
    \/ process_base64(1, {Some(Secret)}, {<<"png">>, <<"data:", ",", "png">>}, RichOutcomes)

SpecAgg == InitAgg /\ [][NextAgg]_vars

\* requests in flight together, every interleaving of their steps
InitConc ==
    /\ API_KEY \in EnvKeys
    /\ modelDirs = AllModelDirs
    /\ IdleService

NextConc ==
    \/ startup
    \/ health
    \/ \E r \in Slots :
           process_base64(r, {None, Some(Secret)}, SmallBodies, SmallOutcomes)

SpecConc == InitConc /\ [][NextConc]_vars

----------------------------------------------------------------------------
(* Properties *)

InPipeline(f) == f.pc \in {"decode", "infer", "agg", "loop", "finish"}

\* C1: a processing request is rejected with 401 exactly when a non-empty
\* secret is configured and the X-API-Key header is absent or differs from
\* it, whatever the state of the engine; a rejected request is never decoded
\* nor given to the engine, and with no secret every request passes.
C1_AccessDecision ==
    \A r \in Slots :
        LET f == req[r]
        IN  f.pc \notin {"idle", "auth"} =>
                /\ (f.status = 401) <=> (API_KEY # "" /\ f.key # Some(API_KEY))
                /\ f.status = 401 =>
                       f.pc = "done" /\ f.calls = {} /\ f.resp = None

\* a wrong key is rejected with 401 while the engine is still None
C1_Witness ==
    \E r \in Slots :
        /\ req[r].status = 401
        /\ req[r].key = Some("wrong")
        /\ ocr_engine = None

\* C2: a request that passed the access filter while the engine handle is
\* None is answered 503 at once: no request is in the pipeline or served
\* while the handle is None, and a 503 made no decoder or engine call.
C2_FailFast ==
    \A r \in Slots :
        LET f == req[r]
        IN  /\ f.status = 503 =>
                   f.pc = "done" /\ f.calls = {} /\ f.resp = None
            /\ ocr_engine = None =>
                   /\ ~InPipeline(f)
                   /\ f.status \in {0, 401, 503}
                   /\ f.pc = "done" => f.status \in {401, 503}

\* a request carrying the right secret is answered 503, the startup hook
\* having failed
C2_Witness ==
    \E r \in Slots :
        /\ req[r].status = 503
        /\ API_KEY = Secret
        /\ req[r].key = Some(Secret)
        /\ lifecycle = "failed"

\* whether the pipeline of the finished frame f raised
PipelineRaised(f) ==
    /\ f.pc = "done"
    /\ "decode" \in f.calls
    /\ \/ DecodeImage(f.body).exc # None
       \/ /\ f.result # None
          /\ \/ f.result[1].exc # None
             \/ f.result[1] \in MalformedAnswers

\* C3: every exception raised in decode, inference or aggregation gives an
\* HTTP 200 whose body has success=false and a non-empty error string; only
\* 401 and 503 are HTTP-level failures.
C3_ErrorsInBody ==
    \A r \in Slots :
        LET f == req[r]
        IN  /\ f.status \in {0, 200, 401, 503}
            /\ PipelineRaised(f) =>
                   /\ f.status = 200
                   /\ f.resp # None
                   /\ f.resp[1].success = FALSE
                   /\ f.resp[1].error # None
                   /\ f.resp[1].error[1] # ""

\* C4: /health is always answered; a health call reports ready exactly when
\* the engine handle is set at that moment, and changes nothing but the
\* response it returns; ready=true is never reported before initialization.
C4_HealthReadiness ==
    /\ [](/\ ENABLED health
          /\ healthResp # None =>
                 /\ healthResp[1].status = "ok"
                 /\ healthResp[1].ready => ocr_engine # None
                 /\ lifecycle = "imported" => ~healthResp[1].ready)
    /\ [][healthResp' # healthResp =>
              /\ healthResp' # None
              /\ healthResp'[1].ready = (ocr_engine # None)
              /\ UNCHANGED <<API_KEY, modelDirs, ocr_engine, lifecycle,
                             warnings, arrivals, req>>]_vars

\* ready=true is reported while a processed request is being answered
C4_Witness ==
    /\ healthResp # None
    /\ healthResp[1].ready
    /\ \E r \in Slots : req[r].pc = "done" /\ req[r].status = 200

\* C5: with no secret configured the "running without auth" warning is
\* emitted exactly once, at startup: one warning has been emitted once the
\* startup hook has run, and still one after any request passed the filter.
C5_WarnOnceAtStartup ==
    API_KEY = "" =>
        /\ lifecycle = "started" => warnings = 1
        /\ \A r \in Slots : req[r].pc \notin {"idle", "auth"} => warnings = 1

\* C6: the engine handle is None until the startup hook succeeds, is
\* assigned once by it and by nothing else, and is never reset; when
\* initialization raises it stays None, no health response reports ready and
\* no request enters the pipeline.
C6_WriteOnceHandle ==
    /\ [](/\ (ocr_engine # None) <=> (lifecycle = "started")
          /\ ocr_engine \in {None, Some(ENGINE)}
          /\ lifecycle # "started" =>
                 /\ healthResp # None => ~healthResp[1].ready
                 /\ \A r \in Slots : ~InPipeline(req[r]) /\ req[r].status # 200)
    /\ [][ocr_engine' # ocr_engine =>
              /\ ocr_engine = None
              /\ lifecycle = "imported"
              /\ lifecycle' = "started"
              /\ req' = req]_vars

\* initialization raised; health reported not ready and a request got 503
C6_Witness ==
    /\ lifecycle = "failed"
    /\ healthResp # None
    /\ ~healthResp[1].ready
    /\ \E r \in Slots : req[r].status = 503

\* C7 as stated: the health response determines, for each of the three
\* model directories separately, whether it exists: no other set of existing
\* directories gives the response that was returned.
C7_PerDirectoryDeterminable ==
    healthResp # None =>
        \A dirs \in SUBSET AllModelDirs :
            (\E e \in {None, Some(ENGINE)} : HealthBodyOf(e, dirs) = healthResp[1])
                => dirs = modelDirs

\* C7 as amended: the health response carries one models_baked flag, true
\* exactly when all three model directories exist, whatever the ready flag,
\* and the three configured paths.
C7_ModelsBakedAggregate ==
    healthResp # None =>
        /\ healthResp[1].models_baked = (modelDirs = AllModelDirs)
        /\ healthResp[1].model_paths =
               [det |-> _DET_MODEL_DIR, rec |-> _REC_MODEL_DIR,
                cls |-> _CLS_MODEL_DIR]

\* the engine is ready and one directory is missing
C7_Witness ==
    /\ healthResp # None
    /\ healthResp[1].ready
    /\ ~healthResp[1].models_baked
    /\ modelDirs = {_DET_MODEL_DIR, _REC_MODEL_DIR}

\* an engine value with no detections: None, [], [None, ...] or [[], ...]
NoDetections(v) ==
    \/ v = PyNone
    \/ /\ v.t = "list"
       /\ \/ v.v = <<>>
          \/ v.v[1] = PyNone
          \/ v.v[1] = PyList(<<>>)

\* C8: when the image decodes and the engine returns no detections, the
\* response is success=true, text "", lines [], confidence 0.0, no error.
C8_NoDetections ==
    \A r \in Slots :
        LET f == req[r]
        IN  (/\ f.pc = "done"
             /\ f.result # None
             /\ f.result[1].exc = None
             /\ NoDetections(f.result[1].value))
            => /\ f.status = 200
               /\ f.resp = Some(OcrResponse(TRUE, "", <<>>, 0, None))

\* the engine answered [None] and the request is finished
C8_Witness ==
    \E r \in Slots :
        /\ req[r].pc = "done"
        /\ req[r].result = Some(Returns(PyList(<<PyNone>>)))
        /\ req[r].resp # None
        /\ req[r].resp[1].success

RECURSIVE SumConf(_)
SumConf(dets) ==
    IF dets = <<>> THEN 0 ELSE dets[1][2][2] + SumConf(Tail(dets))

RECURSIVE JoinTexts(_)
JoinTexts(dets) ==
    IF Len(dets) = 1 THEN dets[1][2][1]
    ELSE dets[1][2][1] \o "\n" \o JoinTexts(Tail(dets))

\* the detections of a finished, successful frame (<<>> when there are none)
Detections(f) ==
    IF /\ f.pc = "done"
       /\ f.resp # None
       /\ f.result # None
       /\ f.result[1].exc = None
       /\ ~NoDetections(f.result[1].value)
    THEN IF f.resp[1].success THEN f.result[1].value.v[1].v ELSE <<>>
    ELSE <<>>

\* C9: for n > 0 detections the successful response has n lines, the i-th
\* with the i-th detection's text and box and its confidence rounded to 4
\* places; text is the n texts joined by "\n" in that order; confidence is
\* the mean of the n unrounded confidences, rounded to 4 places.
C9_Aggregation ==
    \A r \in Slots :
        LET dets == Detections(req[r])
            n    == Len(dets)
            resp == req[r].resp[1]
        IN  n > 0 =>
                /\ Len(resp.lines) = n
                /\ \A k \in 1..n :
                       /\ resp.lines[k].text = dets[k][2][1]
                       /\ resp.lines[k].box = dets[k][1]
                       /\ resp.lines[k].confidence = RoundHalfEven(dets[k][2][2], 10)
                /\ resp.text = JoinTexts(dets)
                /\ resp.confidence = RoundHalfEven(SumConf(dets), n * 10)
                /\ resp.error = None

\* three lines of confidence 0.00004, 0.00004 and 0.00014: the mean rounds
\* to 0.0001 while the rounded values have mean 0.0000
C9_Witness ==
    \E r \in Slots :
        LET dets == Detections(req[r])
        IN  /\ Len(dets) = 3
            /\ dets[1][2] = <<"INVOICE", 4>>
            /\ dets[2][2] = <<"TOTAL", 4>>
            /\ dets[3][2] = <<"INVOICE", 14>>
            /\ req[r].resp[1].text = "INVOICE\nTOTAL\nINVOICE"
            /\ req[r].resp[1].confidence = 1

\* the response of one request computed alone, from its body and the
\* engine's answer to it
RECURSIVE LinesOf(_)
LinesOf(dets) ==
    IF dets = <<>> THEN <<>>
    ELSE <<[text |-> dets[1][2][1],
            confidence |-> RoundHalfEven(dets[1][2][2], 10),
            box |-> dets[1][1]]>> \o LinesOf(Tail(dets))

AloneResponse(body, out) ==
    IF DecodeImage(body).exc # None THEN ErrorResponse(DecodeImage(body).exc[1])
    ELSE IF out.exc # None THEN ErrorResponse(out.exc[1])
    ELSE IF NoDetections(out.value) THEN OcrResponse(TRUE, "", <<>>, 0, None)
    ELSE LET dets == out.value.v[1].v
         IN  IF \E k \in 1..Len(dets) : ~Unpacks(dets[k])
             THEN ErrorResponse(UnpackError(
                      dets[CHOOSE k \in 1..Len(dets) :
                               /\ ~Unpacks(dets[k])
                               /\ \A j \in 1..(k - 1) : Unpacks(dets[j])]))
             ELSE OcrResponse(TRUE, JoinTexts(dets), LinesOf(dets),
                              RoundHalfEven(SumConf(dets), Len(dets) * 10), None)

\* C10: under every interleaving of the steps of concurrent requests, each
\* response is the one the request would get alone, from its own body and
\* the engine's answer to it; a step of one request changes no other
\* request's frame, and no request step changes the engine handle.
C10_Isolation ==
    /\ [](\A r \in Slots :
              (req[r].pc = "done" /\ req[r].status = 200) =>
                  req[r].resp =
                      Some(AloneResponse(req[r].body,
                                         IF req[r].result = None
                                         THEN Raises("") ELSE req[r].result[1])))
    /\ [][/\ \A r, q \in Slots :
                 r # q => (req'[r] = req[r] \/ req'[q] = req[q])
          /\ req' # req => ocr_engine' = ocr_engine]_vars

\* one request is answered with its two lines while the other, given a
\* different answer, is in the middle of its loop
C10_Witness ==
    \E r, q \in Slots :
        /\ r # q
        /\ req[r].pc = "done"
        /\ req[r].resp # None
        /\ req[r].resp[1].success
        /\ Len(req[r].resp[1].lines) = 2
        /\ req[q].pc = "loop"
        /\ req[q].i = 2
        /\ req[q].result # req[r].result

============================================================================
